---- MODULE Spec2Model ----
(***************************************************************************)
(* The HubSpot API client of tf-hubspot: the retry loop (doWithRetry), the *)
(* request executor (doRequest, the verbs Get/Post/Patch/Delete), the      *)
(* error decoder (parseErrorResponse) and the contact operations that      *)
(* consume the response.  One logical call is followed from the contact    *)
(* operation down to the transport and back.                               *)
(***************************************************************************)
EXTENDS Integers, Sequences, FiniteSets, TLC

VARIABLES
    retryConfig,   \* Client.retryConfig
    pc,            \* position of the call
    op,            \* the contact operation that makes the call
    ctxDone,       \* ctx.Done() is closed (cancelled or deadline fired)
    attempt,       \* loop variable of doWithRetry
    outcomes,      \* what each c.httpClient.Do returned, in order
    bodies,        \* the response body of each invocation
    resp,          \* doWithRetry's resp: index into outcomes, 0 is nil
    err,           \* doWithRetry's err: "nil", "net" or "ctx"
    result,        \* what Get/Post/Patch/Delete returned
    waits,         \* attempt index of each backoff wait started
    cancelPc,      \* position of the call when the context was cancelled
    cancelInv,     \* number of transport invocations at that moment
    backoff,       \* doWithRetry's backoff: the delay of the current wait
    startConfig,   \* the policy the client held when the call started
    client,        \* Client.apiToken, baseURL and apiVersion
    req,           \* the *http.Request of the call and what it has sent
    bk,            \* backoff run: inputs and results of calculateBackoff
    dec,           \* decoder run: input and result of parseErrorResponse
    pcf,           \* provider run: input and result of HubSpotProvider.Configure
    calls,         \* concurrent calls: the locals of doWithRetry of each call
    lookup,        \* lookup run: input and result of GetContactByEmail
    tf,            \* resource run: input and result of a ContactResource handler
    clStatus,      \* classifier run: status of the outcome
    clErr,         \* classifier run: the outcome is a transport failure
    clOut          \* classifier run: what shouldRetry returned

vars == <<retryConfig, pc, op, ctxDone, attempt, outcomes, bodies, resp, err,
          result, waits, cancelPc, cancelInv, backoff, startConfig, client,
          req, bk,
          dec, pcf, calls, lookup, tf, clStatus, clErr, clOut>>

callVars == <<retryConfig, pc, op, ctxDone, attempt, outcomes, bodies, resp,
              err, result, waits, cancelPc, cancelInv, backoff, startConfig,
              client, req>>

clVars == <<clStatus, clErr, clOut>>

\* the variables of the runs of the pure functions
pureVars == <<clStatus, clErr, clOut, bk, dec, pcf, calls, lookup, tf>>

----------------------------------------------------------------------------
(* Bounds and program constants *)

\* largest MaxRetries a RetryConfig of the model carries
MaxRetriesBound == 3

\* classifier runs cover the statuses StatusLo .. StatusHi
StatusLo == 100
StatusHi == 650

\* DefaultRetryConfig().MaxRetries
DefaultMaxRetries == 3

\* a time.Duration counts ticks; a second is TicksPerSecond ticks
TicksPerSecond == 4

\* a time.Duration is a signed integer of DurationBits bits
DurationBits == 8

\* RetryConfig.Multiplier is a number of MulDen-ths: MulDen is 1.0
MulDen == 4

\* rand.Float64() draws j / JitterSteps for j in 0 .. JitterSteps - 1
JitterSteps == 4

\* backoff runs: InitialBackoff in 1 .. MaxInitialBound ticks
MaxInitialBound == 6

\* backoff runs: MaxBackoff in 0 .. MaxBackoffBound ticks
MaxBackoffBound == 10

\* backoff runs: attempt in 0 .. MaxAttemptIndex
MaxAttemptIndex == 3

\* Retry-After seconds counts and date distances run up to HintMax
HintMax == 2

\* tokens have up to this many one-byte characters that are no whitespace
MaxTokenAscii == 11

\* and up to this many two-byte characters
MaxTokenWide == 5

\* if len(apiToken) < 10
MinTokenLen == 10

\* the policies of the concurrent calls have up to this many retries
ConcRetriesBound == 1

\* a search answers with a total and a number of results up to MaxResults
MaxResults == 2

\* contact ids of the resource runs
MaxContactId == 2

StatusTooManyRequests == 429
StatusNotFound == 404
StatusUnauthorized == 401

\* statuses the transport of the model answers with
Statuses == {200, 204, 304, 400, 401, 404, 429, 503, 600}

\* contact operations and the verb each one uses
Ops == {"CreateContact", "GetContact", "UpdateContact", "DeleteContact",
        "GetContactByEmail"}

Verb(o) ==
    CASE o = "CreateContact" -> "POST"
      [] o = "GetContact" -> "GET"
      [] o = "UpdateContact" -> "PATCH"
      [] o = "DeleteContact" -> "DELETE"
      [] o = "GetContactByEmail" -> "POST"

\* every verb marshals a body
HasBody_Always(o) == TRUE

\* Get and Delete pass a nil body to doRequest
HasBody(o) == Verb(o) \in {"POST", "PATCH"}

----------------------------------------------------------------------------
(* Values *)

NilErr == [kind |-> "nil", status |-> 0, cause |-> "none", retries |-> 0]

\* ctx.Err()
CtxErr == [kind |-> "ctx", status |-> 0, cause |-> "ctx", retries |-> 0]

\* fmt.Errorf("request failed: %w", err)
RequestFailed(e) ==
    [kind |-> "request_failed", status |-> 0, cause |-> e, retries |-> 0]

\* exhaustion error that counts the attempts instead of the retries
FailedAfterRetries_Attempts(n, e) ==
    [kind |-> "failed_after_retries", status |-> 0, cause |-> e,
     retries |-> n + 1]

\* fmt.Errorf("request failed after %d retries: %w", MaxRetries, err)
FailedAfterRetries(n, e) ==
    [kind |-> "failed_after_retries", status |-> 0, cause |-> e, retries |-> n]

\* fmt.Errorf("failed to marshal request body: %w", err)
MarshalErr == [kind |-> "marshal", status |-> 0, cause |-> "none", retries |-> 0]

\* fmt.Errorf("failed to create request: %w", err)
NewRequestErr ==
    [kind |-> "new_request", status |-> 0, cause |-> "none", retries |-> 0]

\* &HubSpotError{..., StatusCode: resp.StatusCode}
HubSpotError(code) ==
    [kind |-> "hubspot", status |-> code, cause |-> "none", retries |-> 0]

IsNotFound(e) == e.kind = "hubspot" /\ e.status = StatusNotFound

IsRateLimited(e) == e.kind = "hubspot" /\ e.status = StatusTooManyRequests

\* server-error test that starts at 400
IsServerError_From400(e) ==
    e.kind = "hubspot" /\ e.status >= 400 /\ e.status < 600

IsServerError(e) == e.kind = "hubspot" /\ e.status >= 500 /\ e.status < 600

IsAuthError(e) == e.kind = "hubspot" /\ e.status = StatusUnauthorized

\* default policy that never retries
DefaultRetryConfig_NoRetry ==
    [MaxRetries |-> 0,
     InitialBackoff |-> 1 * TicksPerSecond,
     MaxBackoff |-> 30 * TicksPerSecond,
     Multiplier |-> 2 * MulDen]

DefaultRetryConfig ==
    [MaxRetries |-> DefaultMaxRetries,
     InitialBackoff |-> 1 * TicksPerSecond,
     MaxBackoff |-> 30 * TicksPerSecond,
     Multiplier |-> 2 * MulDen]

\* the InitialBackoff, MaxBackoff and Multiplier of the policies a caller
\* installs: the default ones, a MaxBackoff below InitialBackoff, and a
\* constant delay
Timings ==
    { [InitialBackoff |-> 1 * TicksPerSecond,
       MaxBackoff |-> 30 * TicksPerSecond, Multiplier |-> 2 * MulDen],
      [InitialBackoff |-> 2 * TicksPerSecond,
       MaxBackoff |-> 1 * TicksPerSecond, Multiplier |-> 2 * MulDen],
      [InitialBackoff |-> 1, MaxBackoff |-> 1, Multiplier |-> MulDen] }

\* RetryConfig{MaxRetries: n, ...t}
RetryConfig(n, t) ==
    [MaxRetries |-> n, InitialBackoff |-> t.InitialBackoff,
     MaxBackoff |-> t.MaxBackoff, Multiplier |-> t.Multiplier]

NoResult == [resp |-> 0, err |-> NilErr]

\* the Config values a client is built from
ClientConfigs ==
    { [APIToken |-> "pat-alpha", BaseURL |-> "", APIVersion |-> ""],
      [APIToken |-> "pat-beta", BaseURL |-> "", APIVersion |-> "v4"] }

\* NewClient(config): the defaults, then the fields of the Client
NewClient(config) ==
    [apiToken |-> config.APIToken,
     baseURL |-> IF config.BaseURL = "" THEN "https://api.hubapi.com"
                 ELSE config.BaseURL,
     apiVersion |-> IF config.APIVersion = "" THEN "v3"
                    ELSE config.APIVersion]

\* the client of the runs of the pure functions
DefaultClient ==
    NewClient([APIToken |-> "pat-alpha", BaseURL |-> "", APIVersion |-> ""])

\* the path a contact operation passes to its verb
Path(o) ==
    IF o = "CreateContact" THEN "crm/v3/objects/contacts"
    ELSE IF o = "GetContactByEmail" THEN "crm/v3/objects/contacts/search"
    ELSE "crm/v3/objects/contacts/{id}"

\* c.buildURL(path): fmt.Sprintf("%s/%s", c.baseURL, path)
buildURL(c, path) == <<c.baseURL, path>>

\* headers without Accept
addCommonHeaders_NoAccept(c) ==
    [h \in {"Authorization", "Content-Type"} |->
        IF h = "Authorization" THEN <<"Bearer", c.apiToken>>
        ELSE <<"application/json">>]

\* c.addCommonHeaders(req): Authorization, Content-Type and Accept; a value
\* is the sequence of its words
addCommonHeaders(c) ==
    [h \in {"Authorization", "Content-Type", "Accept"} |->
        IF h = "Authorization" THEN <<"Bearer", c.apiToken>>
        ELSE <<"application/json">>]

\* no request built
NoRequest ==
    [method |-> "", url |-> <<>>, headers |-> <<>>, hasBody |-> FALSE,
     drained |-> FALSE, sent |-> <<>>]

\* http.NewRequestWithContext(ctx, method, url, bodyReader) followed by
\* c.addCommonHeaders(req): the body is a bytes.Reader at its start
NewRequest(c, o) ==
    [method |-> Verb(o), url |-> buildURL(c, Path(o)),
     headers |-> addCommonHeaders(c), hasBody |-> HasBody(o),
     drained |-> FALSE, sent |-> <<>>]

\* what c.httpClient.Do(req) transmits as the body: req.Body is read from
\* where the previous Do left it
Transmitted(r) ==
    IF ~r.hasBody THEN "no_body"
    ELSE IF r.drained THEN "drained" ELSE "complete"

\* the request after c.httpClient.Do(req) returned: a Do that got a response
\* has read the body to its end, a Do that failed may have
AfterDo(r, failed) ==
    { [r EXCEPT !.sent = Append(@, Transmitted(r)), !.drained = d] :
        d \in IF ~r.hasBody THEN {FALSE}
              ELSE IF failed THEN {r.drained, TRUE} ELSE {TRUE} }

\* the text of a *url.Error, what c.httpClient.Do returns on failure: the
\* method, the URL and the cause
urlErrorText_WithHeaders(r, cause) ==
    {r.method, cause} \cup {r.url[i] : i \in DOMAIN r.url}
        \cup UNION {{r.headers[h][i] : i \in DOMAIN r.headers[h]} :
                       h \in DOMAIN r.headers}

urlErrorText(r, cause) ==
    {r.method, cause} \cup {r.url[i] : i \in DOMAIN r.url}

\* err.Error() of what a verb returned for the request r: the words of the
\* message
ErrorText(e, r) ==
    IF e.kind = "nil" THEN {}
    ELSE IF e.kind = "ctx" THEN {"context canceled"}
    ELSE IF e.kind = "request_failed"
    THEN {"request failed"} \cup urlErrorText(r, e.cause)
    ELSE IF e.kind = "failed_after_retries"
    THEN {"request failed after", "retries"} \cup urlErrorText(r, e.cause)
    ELSE IF e.kind = "marshal" THEN {"failed to marshal request body"}
    ELSE IF e.kind = "new_request" THEN {"failed to create request"}
    ELSE {"HubSpot API error", "body.message"}

\* resp.Body of a response the transport handed over: who closed it, in
\* order, and whether it was read
OpenBody == [exists |-> TRUE, closes |-> <<>>, read |-> FALSE]

\* Do returns a nil response together with a non-nil error
NoBody == [exists |-> FALSE, closes |-> <<>>, read |-> FALSE]

\* resp.Body.Close() by who
Close(bs, i, who) == [bs EXCEPT ![i].closes = Append(@, who)]

\* io.ReadAll(resp.Body)
ReadAll(bs, i) == [bs EXCEPT ![i].read = TRUE]

\* number of c.httpClient.Do calls made so far
Invocations == Len(outcomes) + (IF pc = "inflight" THEN 1 ELSE 0)

----------------------------------------------------------------------------
(* Failure classifier *)

\* shouldRetry that gives up on a transport failure
shouldRetry_NoTransport(status, e) ==
    IF e THEN FALSE
    ELSE IF status = StatusTooManyRequests THEN TRUE
    ELSE IF status >= 500 /\ status < 600 THEN TRUE
    ELSE FALSE

\* shouldRetry that retries every status from 400 on
shouldRetry_ClientErrors(status, e) ==
    IF e THEN TRUE
    ELSE IF status >= 400 /\ status < 600 THEN TRUE
    ELSE FALSE

\* shouldRetry whose 5xx range starts after 500
shouldRetry_Above500(status, e) ==
    IF e THEN TRUE
    ELSE IF status = StatusTooManyRequests THEN TRUE
    ELSE IF status > 500 /\ status < 600 THEN TRUE
    ELSE FALSE

\* shouldRetry(resp, err); e is TRUE when err != nil
shouldRetry(status, e) ==
    IF e THEN TRUE
    ELSE IF status = StatusTooManyRequests THEN TRUE
    ELSE IF status >= 500 /\ status < 600 THEN TRUE
    ELSE FALSE

\* err == nil && resp.StatusCode >= 200 && resp.StatusCode < 300
IsSuccess(status, e) == ~e /\ status >= 200 /\ status < 300

----------------------------------------------------------------------------
(* Backoff policy *)

RECURSIVE Pow(_, _)
\* math.Pow(b, e) for a whole e >= 0
Pow(b, e) == IF e = 0 THEN 1 ELSE b * Pow(b, e - 1)

MaxDuration == Pow(2, DurationBits - 1) - 1

MinDuration == 0 - Pow(2, DurationBits - 1)

\* the value an overflowing Duration multiplication is left with
WrapDuration(x) == ((x - MinDuration) % Pow(2, DurationBits)) + MinDuration

\* time.Duration(f) of the float num / den: the fraction is dropped
TruncDuration(num, den) ==
    IF num >= 0 THEN num \div den ELSE 0 - ((0 - num) \div den)

\* the Retry-After header of a response: absent, a decimal integer n, an
\* HTTP date n ticks from now, or text that is neither
NoHeader == [kind |-> "absent", n |-> 0]

Headers ==
    {NoHeader, [kind |-> "garbage", n |-> 0]}
        \cup {[kind |-> "seconds", n |-> n] :
                 n \in (-1 .. HintMax)
                        \cup {MaxDuration \div TicksPerSecond + 1,
                              Pow(2, DurationBits) \div TicksPerSecond + 1}}
        \cup {[kind |-> "date", n |-> n] : n \in -1 .. HintMax}

\* getRetryAfter(resp)
getRetryAfter(h) ==
    IF h.kind = "absent" THEN 0
    ELSE IF h.kind = "seconds" THEN WrapDuration(h.n * TicksPerSecond)
    ELSE IF h.kind = "date" THEN h.n
    ELSE 0

\* hint test that also takes a negative duration
hintUsable_NonZero(d) == d # 0

\* if retryAfter := getRetryAfter(resp); retryAfter > 0
hintUsable(d) == d > 0

\* jitter of up to half of the backoff
jittered_Half(a, cfg, j) ==
    [num |-> cfg.InitialBackoff * Pow(cfg.Multiplier, a) * (2 * JitterSteps + j),
     den |-> Pow(MulDen, a) * 2 * JitterSteps]

\* the numerator and denominator of backoff after the jitter is added:
\* InitialBackoff * Multiplier^attempt * (1 + 0.25 * j / JitterSteps)
jittered(a, cfg, j) ==
    [num |-> cfg.InitialBackoff * Pow(cfg.Multiplier, a) * (4 * JitterSteps + j),
     den |-> Pow(MulDen, a) * 4 * JitterSteps]

\* backoff that is never capped
capped_Never(b, cfg) == TruncDuration(b.num, b.den)

\* if backoff > float64(config.MaxBackoff) { backoff = MaxBackoff };
\* return time.Duration(backoff)
capped(b, cfg) ==
    IF b.num > cfg.MaxBackoff * b.den
    THEN cfg.MaxBackoff
    ELSE TruncDuration(b.num, b.den)

\* calculateBackoff(attempt, config, resp): hasResp is resp != nil, h the
\* Retry-After header of resp, j the jitter draw
calculateBackoff(a, cfg, hasResp, h, j) ==
    IF hasResp /\ hintUsable(getRetryAfter(h))
    THEN getRetryAfter(h)
    ELSE capped(jittered(a, cfg, j), cfg)

----------------------------------------------------------------------------
(* Error decoder and request executor *)

\* status codes a body can name under a key of its own; 0 is no such key
BodyCodes == {0, 200, 404, 500}

\* response bodies: one whose read fails, the empty one, text that is not
\* JSON, JSON that does not fit the struct (an array, a number for a string
\* field), the JSON null, an object without the error's keys and a HubSpot
\* error object with its "status", "category" and "message" strings
Bodies ==
    {[kind |-> k, code |-> 0, status |-> "", category |-> "", message |-> ""] :
        k \in {"read_error", "empty", "not_json", "wrong_shape", "null"}}
        \cup {[kind |-> "object", code |-> c, status |-> "", category |-> "",
               message |-> ""] : c \in BodyCodes}
        \cup {[kind |-> "well_formed", code |-> c, status |-> st,
               category |-> cat, message |-> "contact not found"] :
                 c \in BodyCodes, st \in {"error", "404"},
                 cat \in {"OBJECT_NOT_FOUND", "RATE_LIMITS"}}

\* json.Unmarshal(body, &hubspotErr) returns an error
UnmarshalFails(body) == body.kind \in {"empty", "not_json", "wrong_shape"}

\* string(body) of a body json.Unmarshal rejects
RawText(body) ==
    CASE body.kind = "empty" -> ""
      [] body.kind = "not_json" -> "<html>Bad Gateway</html>"
      [] body.kind = "wrong_shape" -> "[404]"

\* a message: the format, the number it formats and the text it embeds
Formatted(format, code, text) ==
    [format |-> format, code |-> code, text |-> text]

\* a message that is the text itself
Verbatim(text) == Formatted("%s", 0, text)

\* fmt.Sprintf("Failed to read error response: %v", err)
ReadFailedMessage == Formatted("Failed to read error response: %v", 0, "read")

\* a *HubSpotError: Status, Message, Category and StatusCode
HubSpotErrorValue(st, msg, cat, code) ==
    [Status |-> st, Message |-> msg, Category |-> cat, StatusCode |-> code]

\* parseErrorResponse that leaves StatusCode unset
parseErrorResponse_NoCode(status, body) ==
    IF body.kind = "read_error"
    THEN HubSpotErrorValue("error", ReadFailedMessage, "", 0)
    ELSE IF UnmarshalFails(body)
    THEN HubSpotErrorValue("error",
                           Formatted("HTTP %d: %s", status, RawText(body)),
                           "", 0)
    ELSE HubSpotErrorValue(body.status, Verbatim(body.message), body.category, 0)

\* parseErrorResponse that lets the body's own code key fill StatusCode
parseErrorResponse_BodyCode(status, body) ==
    IF body.kind = "read_error"
    THEN HubSpotErrorValue("error", ReadFailedMessage, "", status)
    ELSE IF UnmarshalFails(body)
    THEN HubSpotErrorValue("error",
                           Formatted("HTTP %d: %s", status, RawText(body)),
                           "", status)
    ELSE HubSpotErrorValue(body.status, Verbatim(body.message), body.category,
                           IF body.code # 0 THEN body.code ELSE status)

\* parseErrorResponse whose message for an undecodable body is the status
\* alone
parseErrorResponse_NoBody(status, body) ==
    IF body.kind = "read_error"
    THEN HubSpotErrorValue("error", ReadFailedMessage, "", status)
    ELSE IF UnmarshalFails(body)
    THEN HubSpotErrorValue("error", Formatted("HTTP %d", status, ""), "",
                           status)
    ELSE HubSpotErrorValue(body.status, Verbatim(body.message), body.category,
                           status)

\* parseErrorResponse(resp): the read-failure branch, the unmarshal-failure
\* branch and the decoded branch, where the fields are what the body's keys
\* gave them; StatusCode has the tag json:"-", so no key of the body reaches
\* it, and every branch sets it to resp.StatusCode
parseErrorResponse(status, body) ==
    IF body.kind = "read_error"
    THEN HubSpotErrorValue("error", ReadFailedMessage, "", status)
    ELSE IF UnmarshalFails(body)
    THEN HubSpotErrorValue("error",
                           Formatted("HTTP %d: %s", status, RawText(body)),
                           "", status)
    ELSE HubSpotErrorValue(body.status, Verbatim(body.message), body.category,
                           status)

\* doRequest after doWithRetry returned (r, e): bs and oc are the bodies and
\* outcomes at that moment
doRequest(bs, oc, r, e) ==
    IF e.kind # "nil" THEN
        /\ pc' = "returned"
        /\ result' = [resp |-> 0, err |-> e]
        /\ bodies' = bs
    ELSE IF r = 0 THEN
        \* resp.StatusCode on a nil response
        /\ pc' = "panic"
        /\ result' = NoResult
        /\ bodies' = bs
    ELSE IF oc[r].status < 200 \/ oc[r].status >= 300 THEN
        /\ pc' = "returned"
        /\ \E b \in Bodies :
              result' = [resp |-> 0,
                         err |-> HubSpotError(
                             parseErrorResponse(oc[r].status, b).StatusCode)]
        /\ bodies' = Close(ReadAll(bs, r), r, "doRequest")
    ELSE
        /\ pc' = "returned"
        /\ result' = [resp |-> r, err |-> NilErr]
        /\ bodies' = bs

\* DecodeResponse(resp, v): reads the body, the deferred Close runs last
DecodeResponse(bs, r) == Close(ReadAll(bs, r), r, "DecodeResponse")

----------------------------------------------------------------------------
(* Retry loop *)

\* loop condition that allows one iteration more
LoopContinues_OneMore(a, cfg) == a <= cfg.MaxRetries + 1

\* for attempt := 0; attempt <= c.retryConfig.MaxRetries; attempt++
LoopContinues(a, cfg) == a <= cfg.MaxRetries

\* last-attempt test that is one iteration early
IsLastAttempt_Early(a, cfg) == a + 1 = cfg.MaxRetries

\* last-attempt test that never holds: the loop waits after every retryable
\* outcome and ends by its condition
IsLastAttempt_Never(a, cfg) == FALSE

\* if attempt == c.retryConfig.MaxRetries
IsLastAttempt(a, cfg) == a = cfg.MaxRetries

\* retry without closing the body
releaseBeforeRetry_Leak(bs, r) == bs

\* if resp != nil && resp.Body != nil { resp.Body.Close() }
releaseBeforeRetry(bs, r) == IF r # 0 THEN Close(bs, r, "doWithRetry") ELSE bs

\* the Retry-After headers of the responses of a call
ResponseHeaders ==
    {NoHeader, [kind |-> "seconds", n |-> 1], [kind |-> "seconds", n |-> 0],
     [kind |-> "date", n |-> -1], [kind |-> "garbage", n |-> 0]}

\* what a transport invocation can return
TransportOutcomes ==
    {[err |-> "nil", status |-> s] : s \in Statuses}
        \cup {[err |-> "net", status |-> 0]}
        \cup (IF ctxDone THEN {[err |-> "ctx", status |-> 0]} ELSE {})

\* the error doWithRetry's err variable holds after the loop
RawErr(e) ==
    IF e = "nil" THEN NilErr
    ELSE [kind |-> "transport", status |-> 0, cause |-> e, retries |-> 0]

----------------------------------------------------------------------------
(* Actions *)

\* a token: how many one-byte characters that are no whitespace, two-byte
\* characters and whitespace characters it has
Tokens ==
    {[ascii |-> a, wide |-> w, spaces |-> sp] :
        a \in 0 .. MaxTokenAscii, w \in 0 .. MaxTokenWide,
        sp \in {0, 1, MinTokenLen}}

\* len(apiToken): the number of bytes
ByteLen(t) == t.ascii + 2 * t.wide + t.spaces

\* apiToken == ""
IsEmptyToken(t) == ByteLen(t) = 0

\* strings.TrimSpace(apiToken) == ""
IsBlankToken(t) == t.ascii + t.wide = 0

\* length test that counts characters
tooShort_Chars(t) == t.ascii + t.wide + t.spaces < MinTokenLen

\* len(apiToken) < 10
tooShort(t) == ByteLen(t) < MinTokenLen

\* apiToken := config.APIToken.ValueString(); if apiToken == ""
\* { apiToken = os.Getenv("HUBSPOT_API_TOKEN") }
effectiveToken(attr, env) == IF IsEmptyToken(attr) THEN env ELSE attr

\* HubSpotProvider.Configure: the diagnostic it adds and what it stores in
\* ResourceData and DataSourceData
Configure(getOK, attr, env) ==
    LET apiToken == effectiveToken(attr, env)
    IN  IF ~getOK THEN [diag |-> "config", data |-> "unset"]
        ELSE IF IsEmptyToken(apiToken)
        THEN [diag |-> "Missing API Token", data |-> "unset"]
        ELSE IF IsBlankToken(apiToken)
        THEN [diag |-> "Invalid API Token", data |-> "unset"]
        ELSE IF tooShort(apiToken)
        THEN [diag |-> "Invalid API Token Format", data |-> "unset"]
        ELSE [diag |-> "none", data |-> "client"]

\* no provider run
NoConfigure ==
    [phase |-> "unused", getOK |-> TRUE,
     attr |-> [ascii |-> 0, wide |-> 0, spaces |-> 0],
     env |-> [ascii |-> 0, wide |-> 0, spaces |-> 0],
     diag |-> "none", data |-> "unset"]

\* the goroutines that call the client at the same time
CallIds == {"A", "B"}

\* the locals of a doWithRetry that has not started
NoCall ==
    [pc |-> "idle", ctxDone |-> FALSE, cancelPc |-> "none", cancelInv |-> 0,
     attempt |-> 0, outcomes |-> <<>>, resp |-> 0, err |-> "nil",
     result |-> NoResult, waits |-> <<>>]

NoCalls == [i \in CallIds |-> NoCall]

\* no decoder run
NoDecode ==
    [phase |-> "unused", status |-> 0,
     body |-> [kind |-> "empty", code |-> 0, status |-> "", category |-> "",
               message |-> ""],
     out |-> HubSpotErrorValue("", Verbatim(""), "", 0), read |-> "none"]

\* fmt.Errorf("failed to search contact by email: %w", err)
SearchContactError(e) == [kind |-> "wrapped_search", inner |-> e]

\* fmt.Errorf("failed to decode search response: %w", err)
DecodeSearchError == [kind |-> "wrapped_decode", inner |-> "decode"]

\* what Post returns to GetContactByEmail: a 2xx response or an error
PostResults ==
    {[resp |-> 1, err |-> NilErr]}
        \cup {[resp |-> 0, err |-> e] :
                 e \in {HubSpotError(StatusNotFound), HubSpotError(503),
                        HubSpotError(StatusTooManyRequests),
                        RequestFailed("net"), CtxErr, MarshalErr}}

\* GetContactByEmail after Post returned r: decodeOK is DecodeResponse
\* returning nil, total and results are searchResp.Total and
\* len(searchResp.Results); the contact is the index into Results, from 1,
\* 0 is nil.  The error of an empty result is a HubSpotError literal with
\* Status and Message only, so its StatusCode is 0
GetContactByEmail(r, decodeOK, total, results) ==
    IF r.err.kind # "nil"
    THEN [contact |-> 0, err |-> SearchContactError(r.err)]
    ELSE IF ~decodeOK THEN [contact |-> 0, err |-> DecodeSearchError]
    ELSE IF total = 0 \/ results = 0
    THEN [contact |-> 0,
          err |-> HubSpotErrorValue(
                      "404",
                      Formatted("contact with email %s not found", 0, "email"),
                      "", 0)]
    ELSE [contact |-> 1, err |-> [kind |-> "nil"]]

\* no lookup run
NoLookup ==
    [phase |-> "unused", post |-> NoResult, decodeOK |-> TRUE, total |-> 0,
     results |-> 0, contact |-> 0, err |-> [kind |-> "nil"]]

\* the e-mail addresses of the contacts of the resource runs
Emails == {"a@example.com", "b@example.com"}

\* no resource in the Terraform state
NullState == [id |-> 0, email |-> ""]

\* the states with a contact resource
ContactStates == {[id |-> i, email |-> e] : i \in 1 .. MaxContactId, e \in Emails}

\* the plans: the email and whether the properties map is null, converts
\* (ElementsAs) or does not
Plans == {[email |-> e, properties |-> q] :
             e \in Emails, q \in {"null", "ok", "bad"}}

\* what CreateContact, UpdateContact and DeleteContact return as error: nil
\* or the wrapped error of the verb
ContactErrors ==
    {"nil", "hubspot_404", "hubspot_503", "request_failed", "ctx", "decode"}

\* ContactResource.Create: getOK is req.Plan.Get without error diagnostic, e
\* the error of r.client.CreateContact, id the contact.ID of its answer;
\* state is resp.State, which starts as prior
ContactResourceCreate(prior, plan, getOK, e, id) ==
    IF ~getOK THEN [state |-> prior, diags |-> <<"Plan.Get">>, called |-> FALSE]
    ELSE IF plan.properties = "bad"
    THEN [state |-> prior, diags |-> <<"ElementsAs">>, called |-> FALSE]
    ELSE IF e # "nil"
    THEN [state |-> prior, diags |-> <<"Error Creating Contact">>,
          called |-> TRUE]
    ELSE [state |-> [id |-> id, email |-> plan.email], diags |-> <<>>,
          called |-> TRUE]

\* ContactResource.Update: data, with its ID, is read from the plan
ContactResourceUpdate(prior, plan, getOK, e) ==
    IF ~getOK THEN [state |-> prior, diags |-> <<"Plan.Get">>, called |-> FALSE]
    ELSE IF plan.properties = "bad"
    THEN [state |-> prior, diags |-> <<"ElementsAs">>, called |-> FALSE]
    ELSE IF e # "nil"
    THEN [state |-> prior, diags |-> <<"Error Updating Contact">>,
          called |-> TRUE]
    ELSE [state |-> [id |-> prior.id, email |-> plan.email], diags |-> <<>>,
          called |-> TRUE]

\* Delete that lets the resource go whatever DeleteContact returned
ContactResourceDelete_Always(prior, getOK, e) ==
    IF ~getOK THEN [state |-> prior, diags |-> <<"State.Get">>, called |-> FALSE]
    ELSE IF e # "nil"
    THEN [state |-> NullState, diags |-> <<"Error Deleting Contact">>,
          called |-> TRUE]
    ELSE [state |-> NullState, diags |-> <<>>, called |-> TRUE]

\* ContactResource.Delete: the handler writes nothing to resp.State; the
\* framework removes the resource when the handler added no error
\* diagnostic
ContactResourceDelete(prior, getOK, e) ==
    IF ~getOK THEN [state |-> prior, diags |-> <<"State.Get">>, called |-> FALSE]
    ELSE IF e # "nil"
    THEN [state |-> prior, diags |-> <<"Error Deleting Contact">>,
          called |-> TRUE]
    ELSE [state |-> NullState, diags |-> <<>>, called |-> TRUE]

\* no resource run
NoResource ==
    [phase |-> "unused", handler |-> "none", prior |-> NullState,
     plan |-> [email |-> "", properties |-> "null"], getOK |-> TRUE,
     err |-> "nil", state |-> NullState, diags |-> <<>>, called |-> FALSE]

\* no backoff run
NoRun ==
    [phase |-> "unused", cfg |-> DefaultRetryConfig, attempt |-> 0,
     hdr |-> NoHeader, j |-> 0, j2 |-> 0, d |-> 0, plain |-> 0, next |-> 0]

Init ==
    /\ \E config \in ClientConfigs : client = NewClient(config)
    /\ req = NoRequest
    /\ retryConfig = DefaultRetryConfig
    /\ pc = "idle"
    /\ op = "none"
    /\ ctxDone = FALSE
    /\ attempt = 0
    /\ outcomes = <<>>
    /\ bodies = <<>>
    /\ resp = 0
    /\ err = "nil"
    /\ result = NoResult
    /\ waits = <<>>
    /\ cancelPc = "none"
    /\ cancelInv = 0
    /\ backoff = 0
    /\ startConfig = DefaultRetryConfig
    /\ bk = NoRun
    /\ dec = NoDecode
    /\ pcf = NoConfigure
    /\ calls = NoCalls
    /\ lookup = NoLookup
    /\ tf = NoResource
    /\ clStatus = 0
    /\ clErr = FALSE
    /\ clOut = "unused"

\* c.SetRetryConfig(config), between calls
SetRetryConfig ==
    /\ pc = "idle"
    /\ \E n \in -1 .. MaxRetriesBound, t \in Timings :
          retryConfig' = RetryConfig(n, t)
    /\ UNCHANGED <<pc, op, ctxDone, attempt, outcomes, bodies, resp, err,
                   result, waits, cancelPc, cancelInv, backoff, startConfig>>
    /\ UNCHANGED <<client, req>>
    /\ UNCHANGED pureVars

\* the caller's context is cancelled or its deadline fires
Cancel ==
    /\ ~ctxDone
    /\ pc \in {"idle", "loop", "inflight", "backoff", "returned"}
    /\ ctxDone' = TRUE
    /\ cancelPc' = pc
    /\ cancelInv' = Invocations
    /\ UNCHANGED <<retryConfig, pc, op, attempt, outcomes, bodies, resp, err,
                   result, waits, backoff, startConfig>>
    /\ UNCHANGED <<client, req>>
    /\ UNCHANGED pureVars

\* a contact operation calls its verb, which calls doRequest: the body is
\* marshalled, the request is built and doWithRetry is entered
StartCall ==
    /\ pc = "idle"
    /\ \E o \in Ops, marshalOK \in BOOLEAN, requestOK \in BOOLEAN :
        /\ op' = o
        /\ IF HasBody(o) /\ ~marshalOK THEN
               /\ pc' = "returned"
               /\ result' = [resp |-> 0, err |-> MarshalErr]
           ELSE IF ~requestOK THEN
               /\ pc' = "returned"
               /\ result' = [resp |-> 0, err |-> NewRequestErr]
           ELSE
               /\ pc' = "loop"
               /\ result' = result
        /\ req' = IF (HasBody(o) /\ ~marshalOK) \/ ~requestOK THEN req
                  ELSE NewRequest(client, o)
    /\ attempt' = 0
    /\ resp' = 0
    /\ err' = "nil"
    /\ startConfig' = retryConfig
    /\ UNCHANGED <<retryConfig, ctxDone, outcomes, bodies, waits, cancelPc,
                   cancelInv, backoff>>
    /\ UNCHANGED client
    /\ UNCHANGED pureVars

\* iteration without the context check
LoopCheck_NoCtxCheck ==
    /\ pc = "loop"
    /\ IF ~LoopContinues(attempt, retryConfig) THEN
           doRequest(bodies, outcomes, resp, RawErr(err))
       ELSE
           /\ pc' = "inflight"
           /\ UNCHANGED <<result, bodies>>
    /\ UNCHANGED <<retryConfig, op, ctxDone, attempt, outcomes, resp, err,
                   waits, cancelPc, cancelInv, backoff, startConfig>>
    /\ UNCHANGED <<client, req>>
    /\ UNCHANGED pureVars

\* top of an iteration: the loop condition, the context check, then
\* c.httpClient.Do is called
LoopCheck ==
    /\ pc = "loop"
    /\ IF ~LoopContinues(attempt, retryConfig) THEN
           \* return resp, err after the loop
           doRequest(bodies, outcomes, resp, RawErr(err))
       ELSE IF ctxDone THEN
           doRequest(bodies, outcomes, 0, CtxErr)
       ELSE
           /\ pc' = "inflight"
           /\ UNCHANGED <<result, bodies>>
    /\ UNCHANGED <<retryConfig, op, ctxDone, attempt, outcomes, resp, err,
                   waits, cancelPc, cancelInv, backoff, startConfig>>
    /\ UNCHANGED <<client, req>>
    /\ UNCHANGED pureVars

\* c.httpClient.Do returns o; the rest of the iteration runs up to a return
\* or to the backoff wait
DoReturns ==
    /\ pc = "inflight"
    /\ \E o \in TransportOutcomes :
        LET i == Len(outcomes) + 1
            oc == Append(outcomes, o)
            bs == Append(bodies, IF o.err = "nil" THEN OpenBody ELSE NoBody)
            r == IF o.err = "nil" THEN i ELSE 0
            failed == o.err # "nil"
        IN  /\ outcomes' = oc
            /\ resp' = r
            /\ err' = o.err
            /\ req' \in AfterDo(req, failed)
            /\ IF IsSuccess(o.status, failed) THEN
                   /\ doRequest(bs, oc, r, NilErr)
                   /\ UNCHANGED <<waits, backoff>>
               ELSE IF ~shouldRetry(o.status, failed) THEN
                   /\ IF failed
                      THEN doRequest(bs, oc, 0, RequestFailed(o.err))
                      ELSE doRequest(bs, oc, r, NilErr)
                   /\ UNCHANGED <<waits, backoff>>
               ELSE IF IsLastAttempt(attempt, retryConfig) THEN
                   /\ IF failed
                      THEN doRequest(bs, oc, 0,
                               FailedAfterRetries(retryConfig.MaxRetries, o.err))
                      ELSE doRequest(bs, oc, r, NilErr)
                   /\ UNCHANGED <<waits, backoff>>
               ELSE
                   /\ \E h \in ResponseHeaders, j \in 0 .. JitterSteps - 1 :
                        backoff' = calculateBackoff(attempt, retryConfig,
                                                    r # 0, h, j)
                   /\ waits' = Append(waits, attempt)
                   /\ bodies' = releaseBeforeRetry(bs, r)
                   /\ pc' = "backoff"
                   /\ UNCHANGED result
    /\ UNCHANGED <<retryConfig, op, ctxDone, attempt, cancelPc, cancelInv,
                   startConfig>>
    /\ UNCHANGED client
    /\ UNCHANGED pureVars

\* cancelled backoff that returns resp, err instead of ctx.Err()
BackoffCancelled_ReturnsLast ==
    /\ pc = "backoff"
    /\ ctxDone
    /\ doRequest(bodies, outcomes, resp, RawErr(err))
    /\ UNCHANGED <<retryConfig, op, ctxDone, attempt, outcomes, resp, err,
                   waits, cancelPc, cancelInv, backoff, startConfig>>
    /\ UNCHANGED <<client, req>>
    /\ UNCHANGED pureVars

\* the backoff select takes case <-ctx.Done()
BackoffCancelled ==
    /\ pc = "backoff"
    /\ ctxDone
    /\ doRequest(bodies, outcomes, 0, CtxErr)
    /\ UNCHANGED <<retryConfig, op, ctxDone, attempt, outcomes, resp, err,
                   waits, cancelPc, cancelInv, backoff, startConfig>>
    /\ UNCHANGED <<client, req>>
    /\ UNCHANGED pureVars

\* the backoff select takes case <-time.After(backoff); attempt++
BackoffTimerFires ==
    /\ pc = "backoff"
    /\ attempt' = attempt + 1
    /\ pc' = "loop"
    /\ backoff' = 0
    /\ UNCHANGED <<retryConfig, op, ctxDone, outcomes, bodies, resp, err,
                   result, waits, cancelPc, cancelInv, startConfig>>
    /\ UNCHANGED <<client, req>>
    /\ UNCHANGED pureVars

\* the contact operation receives what its verb returned: on an error it
\* returns, DeleteContact closes the body, the others call DecodeResponse
CallerFinish ==
    /\ pc = "returned"
    /\ pc' = "done"
    /\ bodies' =
          IF result.err.kind # "nil" THEN bodies
          ELSE IF op = "DeleteContact"
               THEN Close(bodies, result.resp, "DeleteContact")
               ELSE DecodeResponse(bodies, result.resp)
    /\ UNCHANGED <<retryConfig, op, ctxDone, attempt, outcomes, resp, err,
                   result, waits, cancelPc, cancelInv, backoff, startConfig>>
    /\ UNCHANGED <<client, req>>
    /\ UNCHANGED pureVars

Next ==
    \/ SetRetryConfig
    \/ Cancel
    \/ StartCall
    \/ LoopCheck
    \/ DoReturns
    \/ BackoffCancelled
    \/ BackoffTimerFires
    \/ CallerFinish

Spec == Init /\ [][Next]_vars

\* the goroutine of the call keeps running, every c.httpClient.Do returns and
\* every backoff select takes one of its cases: time.After fires unless
\* ctx.Done() is taken first
Fairness ==
    /\ WF_vars(LoopCheck)
    /\ WF_vars(DoReturns)
    /\ WF_vars(BackoffTimerFires \/ BackoffCancelled)
    /\ WF_vars(CallerFinish)

SpecFair == Init /\ [][Next]_vars /\ Fairness

----------------------------------------------------------------------------
(* Concurrent use: SetRetryConfig from another goroutine during a call *)

\* what a reader of c.retryConfig can see while the unsynchronized struct
\* assignment c.retryConfig = new is under way or done: every field is the
\* old or the new value
TornWrites(old, new) ==
    { [MaxRetries |-> a.MaxRetries, InitialBackoff |-> b.InitialBackoff,
       MaxBackoff |-> c.MaxBackoff, Multiplier |-> d.Multiplier] :
        a \in {old, new}, b \in {old, new}, c \in {old, new},
        d \in {old, new} } \ {old}

\* the policies the other goroutine installs: no retries or the most, with
\* MaxBackoff below InitialBackoff
RacePolicies ==
    { [MaxRetries |-> n, InitialBackoff |-> 2 * TicksPerSecond,
       MaxBackoff |-> 1 * TicksPerSecond, Multiplier |-> 2 * MulDen] :
        n \in {0, MaxRetriesBound} }

\* c.SetRetryConfig(config) on another goroutine while doWithRetry runs:
\* the field has no lock, the loop reads it at every iteration
SetRetryConfigConcurrent ==
    /\ pc \in {"loop", "inflight", "backoff"}
    /\ \E new \in RacePolicies :
          retryConfig' \in TornWrites(retryConfig, new)
    /\ UNCHANGED <<pc, op, ctxDone, attempt, outcomes, bodies, resp, err,
                   result, waits, cancelPc, cancelInv, backoff, startConfig>>
    /\ UNCHANGED <<client, req>>
    /\ UNCHANGED pureVars

\* one call on a client that holds the policy NewClient gave it
NextRace ==
    \/ Cancel
    \/ StartCall
    \/ LoopCheck
    \/ DoReturns
    \/ BackoffCancelled
    \/ BackoffTimerFires
    \/ CallerFinish
    \/ SetRetryConfigConcurrent

SpecRace == Init /\ [][NextRace]_vars

----------------------------------------------------------------------------
(* Classifier runs: shouldRetry applied to every outcome *)

ClassifyInit ==
    /\ client = DefaultClient
    /\ req = NoRequest
    /\ retryConfig = DefaultRetryConfig
    /\ pc = "idle"
    /\ op = "none"
    /\ ctxDone = FALSE
    /\ attempt = 0
    /\ outcomes = <<>>
    /\ bodies = <<>>
    /\ resp = 0
    /\ err = "nil"
    /\ result = NoResult
    /\ waits = <<>>
    /\ cancelPc = "none"
    /\ cancelInv = 0
    /\ backoff = 0
    /\ startConfig = DefaultRetryConfig
    /\ bk = NoRun
    /\ dec = NoDecode
    /\ pcf = NoConfigure
    /\ calls = NoCalls
    /\ lookup = NoLookup
    /\ tf = NoResource
    /\ clStatus \in StatusLo .. StatusHi
    /\ clErr \in BOOLEAN
    /\ clOut = "pending"

Classify ==
    /\ clOut = "pending"
    /\ clOut' = IF shouldRetry(clStatus, clErr) THEN "retry" ELSE "stop"
    /\ UNCHANGED <<clStatus, clErr, bk, dec, pcf, calls, lookup, tf>>
    /\ UNCHANGED callVars

ClassifyNext == Classify

SpecClassify == ClassifyInit /\ [][ClassifyNext]_vars

----------------------------------------------------------------------------
(* Backoff runs: calculateBackoff applied to every policy, attempt, header
   and jitter draw *)

\* the policies of the backoff runs
RunPolicies ==
    { [MaxRetries |-> DefaultMaxRetries, InitialBackoff |-> i,
       MaxBackoff |-> m, Multiplier |-> q] :
        i \in 1 .. MaxInitialBound, m \in 0 .. MaxBackoffBound,
        q \in MulDen .. 2 * MulDen }

BackoffInit ==
    /\ client = DefaultClient
    /\ req = NoRequest
    /\ retryConfig = DefaultRetryConfig
    /\ pc = "idle"
    /\ op = "none"
    /\ ctxDone = FALSE
    /\ attempt = 0
    /\ outcomes = <<>>
    /\ bodies = <<>>
    /\ resp = 0
    /\ err = "nil"
    /\ result = NoResult
    /\ waits = <<>>
    /\ cancelPc = "none"
    /\ cancelInv = 0
    /\ backoff = 0
    /\ startConfig = DefaultRetryConfig
    /\ clStatus = 0
    /\ clErr = FALSE
    /\ clOut = "unused"
    /\ dec = NoDecode
    /\ pcf = NoConfigure
    /\ calls = NoCalls
    /\ lookup = NoLookup
    /\ tf = NoResource
    /\ \E cfg \in RunPolicies, a \in 0 .. MaxAttemptIndex, h \in Headers,
          j \in 0 .. JitterSteps - 1 :
          bk = [NoRun EXCEPT !.phase = "pending", !.cfg = cfg, !.attempt = a,
                             !.hdr = h, !.j = j]

\* one run: the delay for a response with the header, the delay for a
\* transport failure, and the delay of the next attempt with its own draw
BackoffRun ==
    /\ bk.phase = "pending"
    /\ \E j2 \in 0 .. JitterSteps - 1 :
          bk' = [bk EXCEPT
                   !.phase = "done",
                   !.j2 = j2,
                   !.d = calculateBackoff(bk.attempt, bk.cfg, TRUE, bk.hdr, bk.j),
                   !.plain = calculateBackoff(bk.attempt, bk.cfg, FALSE,
                                              bk.hdr, bk.j),
                   !.next = calculateBackoff(bk.attempt + 1, bk.cfg, FALSE,
                                             bk.hdr, j2)]
    /\ UNCHANGED <<clVars, dec, pcf, calls, lookup, tf>>
    /\ UNCHANGED callVars

BackoffNext == BackoffRun

SpecBackoff == BackoffInit /\ [][BackoffNext]_vars

----------------------------------------------------------------------------
(* Decoder runs: parseErrorResponse applied to every status and body *)

DecodeInit ==
    /\ client = DefaultClient
    /\ req = NoRequest
    /\ retryConfig = DefaultRetryConfig
    /\ pc = "idle"
    /\ op = "none"
    /\ ctxDone = FALSE
    /\ attempt = 0
    /\ outcomes = <<>>
    /\ bodies = <<>>
    /\ resp = 0
    /\ err = "nil"
    /\ result = NoResult
    /\ waits = <<>>
    /\ cancelPc = "none"
    /\ cancelInv = 0
    /\ backoff = 0
    /\ startConfig = DefaultRetryConfig
    /\ bk = NoRun
    /\ clStatus = 0
    /\ clErr = FALSE
    /\ clOut = "unused"
    /\ pcf = NoConfigure
    /\ calls = NoCalls
    /\ lookup = NoLookup
    /\ tf = NoResource
    /\ \E st \in StatusLo .. StatusHi, b \in Bodies :
          dec = [NoDecode EXCEPT !.phase = "pending", !.status = st, !.body = b]

DecodeRun ==
    /\ dec.phase = "pending"
    /\ dec' = [dec EXCEPT !.phase = "done",
                          !.out = parseErrorResponse(dec.status, dec.body)]
    /\ UNCHANGED <<clVars, bk, pcf, calls, lookup, tf>>
    /\ UNCHANGED callVars

\* fmt.Errorf("failed to get contact: %w", err) in GetContact
GetContactError(e) == [kind |-> "wrapped", inner |-> e]

\* err.(*client.HubSpotError): the type assertion on the error value itself
IsHubSpotErrorPtr(e) == "StatusCode" \in DOMAIN e

\* ContactResource.Read after GetContact returned err: the resource is
\* removed from the state or an error diagnostic is added
ReadOnError(e) ==
    IF IsHubSpotErrorPtr(e) /\ e.Status = "404" THEN "removed" ELSE "diagnostic"

\* ContactResource.Read when the API answered with a non-2xx status that
\* parseErrorResponse decoded
ContactRead ==
    /\ dec.phase = "done"
    /\ dec.status < 200 \/ dec.status >= 300
    /\ dec' = [dec EXCEPT !.phase = "read",
                          !.read = ReadOnError(GetContactError(dec.out))]
    /\ UNCHANGED <<clVars, bk, pcf, calls, lookup, tf>>
    /\ UNCHANGED callVars

DecodeNext ==
    \/ DecodeRun
    \/ ContactRead

SpecDecode == DecodeInit /\ [][DecodeNext]_vars

----------------------------------------------------------------------------
(* Concurrent calls: two goroutines in doWithRetry on one client.  The loop
   keeps attempt, resp, err and backoff in locals; the client is read only *)

\* what the transport returns to a concurrent call
ConcOutcomes(c) ==
    {[err |-> "nil", status |-> st] : st \in {200, 404, 503}}
        \cup {[err |-> "net", status |-> 0]}
        \cup (IF c.ctxDone THEN {[err |-> "ctx", status |-> 0]} ELSE {})

\* what the verb returns when doWithRetry returned (r, e) after the
\* outcomes oc: the error, or the HubSpotError of a non-2xx response, or
\* the response
verbResult(oc, r, e) ==
    IF e.kind # "nil" THEN [resp |-> 0, err |-> e]
    ELSE IF r = 0 THEN [resp |-> 0, err |-> NilErr]
    ELSE IF oc[r].status < 200 \/ oc[r].status >= 300
    THEN [resp |-> 0, err |-> HubSpotError(oc[r].status)]
    ELSE [resp |-> r, err |-> NilErr]

\* attempt counter kept in the client and shared by the calls
nextAttempt_Shared(cs, i) ==
    1 + CHOOSE m \in {cs[j].attempt : j \in CallIds} :
            \A j \in CallIds : cs[j].attempt <= m

\* attempt++ on the local of the call
nextAttempt(cs, i) == cs[i].attempt + 1

ConcInit ==
    /\ client = DefaultClient
    /\ req = NoRequest
    /\ \E n \in 0 .. ConcRetriesBound :
          retryConfig = [DefaultRetryConfig EXCEPT !.MaxRetries = n]
    /\ pc = "idle"
    /\ op = "none"
    /\ ctxDone = FALSE
    /\ attempt = 0
    /\ outcomes = <<>>
    /\ bodies = <<>>
    /\ resp = 0
    /\ err = "nil"
    /\ result = NoResult
    /\ waits = <<>>
    /\ cancelPc = "none"
    /\ cancelInv = 0
    /\ backoff = 0
    /\ startConfig = DefaultRetryConfig
    /\ bk = NoRun
    /\ dec = NoDecode
    /\ pcf = NoConfigure
    /\ calls = NoCalls
    /\ lookup = NoLookup
    /\ tf = NoResource
    /\ clStatus = 0
    /\ clErr = FALSE
    /\ clOut = "unused"

\* goroutine i enters doWithRetry
ConcStart(i) ==
    /\ calls[i].pc = "idle"
    /\ calls' = [calls EXCEPT ![i].pc = "loop"]
    /\ UNCHANGED <<clVars, bk, dec, pcf, lookup, tf>>
    /\ UNCHANGED callVars

\* the context of call i is cancelled
ConcCancel(i) ==
    /\ ~calls[i].ctxDone
    /\ calls[i].pc \in {"loop", "inflight", "backoff"}
    /\ calls' = [calls EXCEPT ![i].ctxDone = TRUE,
                              ![i].cancelPc = calls[i].pc,
                              ![i].cancelInv = Len(calls[i].outcomes)]
    /\ UNCHANGED <<clVars, bk, dec, pcf, lookup, tf>>
    /\ UNCHANGED callVars

\* top of an iteration of call i
ConcLoopCheck(i) ==
    /\ calls[i].pc = "loop"
    /\ LET c == calls[i]
       IN  calls' =
             IF ~LoopContinues(c.attempt, retryConfig)
             THEN [calls EXCEPT
                     ![i].pc = "returned",
                     ![i].result = verbResult(c.outcomes, c.resp, RawErr(c.err))]
             ELSE IF c.ctxDone
             THEN [calls EXCEPT
                     ![i].pc = "returned",
                     ![i].result = verbResult(c.outcomes, 0, CtxErr)]
             ELSE [calls EXCEPT ![i].pc = "inflight"]
    /\ UNCHANGED <<clVars, bk, dec, pcf, lookup, tf>>
    /\ UNCHANGED callVars

\* c.httpClient.Do returns to call i
ConcDoReturns(i) ==
    /\ calls[i].pc = "inflight"
    /\ \E o \in ConcOutcomes(calls[i]) :
        LET c == calls[i]
            oc == Append(c.outcomes, o)
            r == IF o.err = "nil" THEN Len(oc) ELSE 0
            failed == o.err # "nil"
            seen == [c EXCEPT !.outcomes = oc, !.resp = r, !.err = o.err]
        IN  calls' =
              IF IsSuccess(o.status, failed)
              THEN [calls EXCEPT ![i] =
                      [seen EXCEPT !.pc = "returned",
                                   !.result = verbResult(oc, r, NilErr)]]
              ELSE IF ~shouldRetry(o.status, failed)
              THEN [calls EXCEPT ![i] =
                      [seen EXCEPT
                         !.pc = "returned",
                         !.result = IF failed
                                    THEN verbResult(oc, 0, RequestFailed(o.err))
                                    ELSE verbResult(oc, r, NilErr)]]
              ELSE IF IsLastAttempt(c.attempt, retryConfig)
              THEN [calls EXCEPT ![i] =
                      [seen EXCEPT
                         !.pc = "returned",
                         !.result =
                            IF failed
                            THEN verbResult(oc, 0,
                                   FailedAfterRetries(retryConfig.MaxRetries,
                                                      o.err))
                            ELSE verbResult(oc, r, NilErr)]]
              ELSE [calls EXCEPT ![i] =
                      [seen EXCEPT
                         !.pc = "backoff",
                         !.waits = Append(@,
                            [attempt |-> c.attempt,
                             delay |-> calculateBackoff(c.attempt, retryConfig,
                                                        r # 0, NoHeader, 0)])]]
    /\ UNCHANGED <<clVars, bk, dec, pcf, lookup, tf>>
    /\ UNCHANGED callVars

\* the backoff select of call i takes case <-ctx.Done()
ConcBackoffCancelled(i) ==
    /\ calls[i].pc = "backoff"
    /\ calls[i].ctxDone
    /\ calls' = [calls EXCEPT
                   ![i].pc = "returned",
                   ![i].result = verbResult(calls[i].outcomes, 0, CtxErr)]
    /\ UNCHANGED <<clVars, bk, dec, pcf, lookup, tf>>
    /\ UNCHANGED callVars

\* the backoff select of call i takes case <-time.After(backoff)
ConcTimerFires(i) ==
    /\ calls[i].pc = "backoff"
    /\ calls' = [calls EXCEPT ![i].pc = "loop",
                              ![i].attempt = nextAttempt(calls, i)]
    /\ UNCHANGED <<clVars, bk, dec, pcf, lookup, tf>>
    /\ UNCHANGED callVars

ConcNext ==
    \E i \in CallIds :
        \/ ConcStart(i)
        \/ ConcCancel(i)
        \/ ConcLoopCheck(i)
        \/ ConcDoReturns(i)
        \/ ConcBackoffCancelled(i)
        \/ ConcTimerFires(i)

SpecConc == ConcInit /\ [][ConcNext]_vars

----------------------------------------------------------------------------
(* Provider runs: Configure applied to every api_token attribute and
   HUBSPOT_API_TOKEN value *)

ConfigureInit ==
    /\ client = DefaultClient
    /\ req = NoRequest
    /\ retryConfig = DefaultRetryConfig
    /\ pc = "idle"
    /\ op = "none"
    /\ ctxDone = FALSE
    /\ attempt = 0
    /\ outcomes = <<>>
    /\ bodies = <<>>
    /\ resp = 0
    /\ err = "nil"
    /\ result = NoResult
    /\ waits = <<>>
    /\ cancelPc = "none"
    /\ cancelInv = 0
    /\ backoff = 0
    /\ startConfig = DefaultRetryConfig
    /\ bk = NoRun
    /\ dec = NoDecode
    /\ clStatus = 0
    /\ clErr = FALSE
    /\ clOut = "unused"
    /\ calls = NoCalls
    /\ lookup = NoLookup
    /\ tf = NoResource
    /\ \E g \in BOOLEAN, a \in Tokens, e \in Tokens :
          pcf = [NoConfigure EXCEPT !.phase = "pending", !.getOK = g,
                                    !.attr = a, !.env = e]

ConfigureRun ==
    /\ pcf.phase = "pending"
    /\ LET out == Configure(pcf.getOK, pcf.attr, pcf.env)
       IN  pcf' = [pcf EXCEPT !.phase = "done", !.diag = out.diag,
                              !.data = out.data]
    /\ UNCHANGED <<clVars, bk, dec, calls, lookup, tf>>
    /\ UNCHANGED callVars

ConfigureNext == ConfigureRun

SpecConfigure == ConfigureInit /\ [][ConfigureNext]_vars

----------------------------------------------------------------------------
(* Lookup runs: GetContactByEmail applied to everything Post and the search
   can answer *)

LookupInit ==
    /\ client = DefaultClient
    /\ req = NoRequest
    /\ retryConfig = DefaultRetryConfig
    /\ pc = "idle"
    /\ op = "none"
    /\ ctxDone = FALSE
    /\ attempt = 0
    /\ outcomes = <<>>
    /\ bodies = <<>>
    /\ resp = 0
    /\ err = "nil"
    /\ result = NoResult
    /\ waits = <<>>
    /\ cancelPc = "none"
    /\ cancelInv = 0
    /\ backoff = 0
    /\ startConfig = DefaultRetryConfig
    /\ bk = NoRun
    /\ dec = NoDecode
    /\ pcf = NoConfigure
    /\ clStatus = 0
    /\ clErr = FALSE
    /\ clOut = "unused"
    /\ calls = NoCalls
    /\ tf = NoResource
    /\ \E r \in PostResults, d \in BOOLEAN, t \in 0 .. MaxResults,
          n \in 0 .. MaxResults :
          lookup = [NoLookup EXCEPT !.phase = "pending", !.post = r,
                                    !.decodeOK = d, !.total = t, !.results = n]

LookupRun ==
    /\ lookup.phase = "pending"
    /\ LET out == GetContactByEmail(lookup.post, lookup.decodeOK, lookup.total,
                                    lookup.results)
       IN  lookup' = [lookup EXCEPT !.phase = "done", !.contact = out.contact,
                                    !.err = out.err]
    /\ UNCHANGED <<clVars, bk, dec, pcf, calls, tf>>
    /\ UNCHANGED callVars

LookupNext == LookupRun

SpecLookup == LookupInit /\ [][LookupNext]_vars

----------------------------------------------------------------------------
(* Resource runs: the Create, Update and Delete handlers of ContactResource
   applied to every prior state, plan and client result *)

ResourceInit ==
    /\ client = DefaultClient
    /\ req = NoRequest
    /\ retryConfig = DefaultRetryConfig
    /\ pc = "idle"
    /\ op = "none"
    /\ ctxDone = FALSE
    /\ attempt = 0
    /\ outcomes = <<>>
    /\ bodies = <<>>
    /\ resp = 0
    /\ err = "nil"
    /\ result = NoResult
    /\ waits = <<>>
    /\ cancelPc = "none"
    /\ cancelInv = 0
    /\ backoff = 0
    /\ startConfig = DefaultRetryConfig
    /\ bk = NoRun
    /\ dec = NoDecode
    /\ pcf = NoConfigure
    /\ clStatus = 0
    /\ clErr = FALSE
    /\ clOut = "unused"
    /\ calls = NoCalls
    /\ lookup = NoLookup
    /\ \E h \in {"Create", "Update", "Delete"}, plan \in Plans,
          g \in BOOLEAN, e \in ContactErrors :
          \E prior \in IF h = "Create" THEN {NullState} ELSE ContactStates :
              tf = [NoResource EXCEPT !.phase = "pending", !.handler = h,
                                      !.prior = prior, !.plan = plan,
                                      !.getOK = g, !.err = e, !.state = prior]

ResourceCreate ==
    /\ tf.phase = "pending"
    /\ tf.handler = "Create"
    /\ \E id \in 1 .. MaxContactId :
          LET out == ContactResourceCreate(tf.prior, tf.plan, tf.getOK, tf.err, id)
          IN  tf' = [tf EXCEPT !.phase = "done", !.state = out.state,
                               !.diags = out.diags, !.called = out.called]
    /\ UNCHANGED <<clVars, bk, dec, pcf, calls, lookup>>
    /\ UNCHANGED callVars

ResourceUpdate ==
    /\ tf.phase = "pending"
    /\ tf.handler = "Update"
    /\ LET out == ContactResourceUpdate(tf.prior, tf.plan, tf.getOK, tf.err)
       IN  tf' = [tf EXCEPT !.phase = "done", !.state = out.state,
                            !.diags = out.diags, !.called = out.called]
    /\ UNCHANGED <<clVars, bk, dec, pcf, calls, lookup>>
    /\ UNCHANGED callVars

ResourceDelete ==
    /\ tf.phase = "pending"
    /\ tf.handler = "Delete"
    /\ LET out == ContactResourceDelete(tf.prior, tf.getOK, tf.err)
       IN  tf' = [tf EXCEPT !.phase = "done", !.state = out.state,
                            !.diags = out.diags, !.called = out.called]
    /\ UNCHANGED <<clVars, bk, dec, pcf, calls, lookup>>
    /\ UNCHANGED callVars

ResourceNext ==
    \/ ResourceCreate
    \/ ResourceUpdate
    \/ ResourceDelete

SpecResource == ResourceInit /\ [][ResourceNext]_vars

----------------------------------------------------------------------------
(* Properties *)

Returned == pc \in {"returned", "done"}

\* the call got past marshalling and request construction
RequestBuilt == result.err.kind \notin {"marshal", "new_request"}

IsRetryableStatus(s) == s = 429 \/ (s >= 500 /\ s <= 599)

Is2xx(s) == s >= 200 /\ s <= 299

\* outcome i carried a retryable HTTP status
RetryableHTTP(i) == outcomes[i].err = "nil" /\ IsRetryableStatus(outcomes[i].status)

\* outcome i was a transport failure or a retryable HTTP status
RetryableOutcome(i) == outcomes[i].err # "nil" \/ RetryableHTTP(i)

\* outcome i was a 2xx response
SuccessOutcome(i) == outcomes[i].err = "nil" /\ Is2xx(outcomes[i].status)

\* outcome i was a response with a status that is neither 2xx nor retried
NonRetryableHTTP(i) ==
    /\ outcomes[i].err = "nil"
    /\ ~Is2xx(outcomes[i].status)
    /\ ~IsRetryableStatus(outcomes[i].status)

Last == Len(outcomes)

\* C1: with MaxRetries = N >= 0, a context that is never cancelled and a
\* transport that answers every invocation with 429 or 5xx, a call that was
\* built and has returned invoked the transport exactly N + 1 times and
\* returned a failure (no response, a non-nil error).
C1_ExhaustsAfterNPlus1 ==
    ( /\ Returned
      /\ RequestBuilt
      /\ retryConfig.MaxRetries >= 0
      /\ ~ctxDone
      /\ \A i \in 1 .. Last : RetryableHTTP(i) )
    => ( /\ Last = retryConfig.MaxRetries + 1
         /\ result.resp = 0
         /\ result.err.kind # "nil" )

\* the default policy: four 503 answers, then the failure
C1_Witness ==
    /\ pc = "done"
    /\ retryConfig.MaxRetries = 3
    /\ ~ctxDone
    /\ Last = 4
    /\ \A i \in 1 .. Last : outcomes[i] = [err |-> "nil", status |-> 503]
    /\ result.err.kind # "nil"

\* C2: when at least one retry was made and the last permitted attempt
\* returned a retryable HTTP status, the error handed to the caller carries
\* the "failed after N retries" marker.
C2_ExhaustionIsMarked ==
    ( /\ Returned
      /\ Last >= 2
      /\ Last = retryConfig.MaxRetries + 1
      /\ RetryableHTTP(Last) )
    => result.err.kind = "failed_after_retries"

\* C3: if the first k outcomes are retryable, outcome k + 1 is a 2xx
\* response, k <= MaxRetries and the context is not cancelled, the call
\* returns that response without error after exactly k + 1 invocations: it
\* does not return before (a return after only retryable outcomes needs
\* MaxRetries + 1 of them) and invokes nothing after the 2xx.
C3_SucceedsAfterRetries ==
    /\ ~ ( /\ Returned
           /\ RequestBuilt
           /\ ~ctxDone
           /\ Last <= retryConfig.MaxRetries
           /\ \A i \in 1 .. Last : RetryableOutcome(i) )
    /\ \A j \in 1 .. Last :
         ( /\ ~ctxDone
           /\ SuccessOutcome(j)
           /\ \A i \in 1 .. j - 1 : RetryableOutcome(i) )
         => ( /\ j = Last
              /\ j <= retryConfig.MaxRetries + 1
              /\ Returned
              /\ Invocations = j
              /\ result.err = NilErr
              /\ result.resp = j )

\* two transport failures, then 200
C3_Witness ==
    /\ pc = "returned"
    /\ ~ctxDone
    /\ retryConfig.MaxRetries >= 2
    /\ Last = 3
    /\ outcomes[1].err = "net"
    /\ outcomes[2].err = "net"
    /\ outcomes[3] = [err |-> "nil", status |-> 200]
    /\ result = [resp |-> 3, err |-> NilErr]

\* C4: an attempt that returns a status that is neither 2xx, 429 nor 5xx is
\* the last invocation of the call, whatever attempts remain, and the call
\* returns a HubSpotError with that status; for 404 IsNotFound is true.
C4_NonRetryableStops ==
    \A i \in 1 .. Last :
        NonRetryableHTTP(i)
        => ( /\ i = Last
             /\ Invocations = i
             /\ Returned
             /\ result.resp = 0
             /\ result.err.kind = "hubspot"
             /\ result.err.status = outcomes[i].status
             /\ (outcomes[i].status = 404 => IsNotFound(result.err)) )

\* 404 on the first attempt with retries to spare
C4_Witness ==
    /\ pc = "done"
    /\ retryConfig.MaxRetries = 3
    /\ outcomes = << [err |-> "nil", status |-> 404] >>
    /\ IsNotFound(result.err)

\* C5: once the context is cancelled during a backoff wait no transport
\* invocation follows, and the call returns ctx.Err().
C5_CancelDuringBackoff ==
    cancelPc = "backoff"
    => ( /\ Invocations = cancelInv
         /\ pc # "panic"
         /\ Returned => result = [resp |-> 0, err |-> CtxErr] )

\* a call cancelled in its second backoff wait that returned
C5_Witness ==
    /\ cancelPc = "backoff"
    /\ cancelInv = 2
    /\ pc = "done"
    /\ result.err = CtxErr

\* C6: a call whose context was cancelled while a transport invocation was
\* in flight, and whose invocation ended with the context's error, returns
\* the cancellation error and not an error marked "failed after N retries".
C6_CancelIsNotExhaustion ==
    ( /\ Returned
      /\ cancelPc = "inflight"
      /\ outcomes[cancelInv].err = "ctx" )
    => result.err.kind = "ctx"

\* C7: an iteration that begins with the context already cancelled does not
\* call the transport and returns ctx.Err(); this covers the first iteration
\* of a call started with a cancelled context and every retry.
C7_CheckBeforeAttempt ==
    [][ ( /\ pc = "loop"
          /\ ctxDone
          /\ attempt <= retryConfig.MaxRetries
          /\ pc' # pc )
        => ( /\ pc' = "returned"
             /\ outcomes' = outcomes
             /\ result' = [resp |-> 0, err |-> CtxErr] ) ]_vars

\* a call started with a cancelled context returned ctx.Err() after no
\* invocation
C7_Witness ==
    /\ cancelPc = "idle"
    /\ pc = "returned"
    /\ retryConfig.MaxRetries >= 0
    /\ outcomes = <<>>
    /\ result.err = CtxErr

\* C8: shouldRetry is true for every transport failure whatever the status,
\* true for 429 and 500..599, false for every other status in 200..599.
C8_ShouldRetryTable ==
    ( /\ clOut \in {"retry", "stop"}
      /\ clErr \/ (clStatus >= 200 /\ clStatus <= 599) )
    => ( (clOut = "retry")
         <=> (clErr \/ clStatus = 429 \/ (clStatus >= 500 /\ clStatus <= 599)) )

\* the lowest server error is retried
C8_Witness == clOut = "retry" /\ ~clErr /\ clStatus = 500

\* C9: no body is ever closed twice; when the operation is over every body
\* has been closed exactly once: by doWithRetry if the attempt was retried,
\* by doRequest if it was a terminal non-2xx response, by DecodeResponse or
\* DeleteContact if it was the 2xx response.
C9_BodiesClosedOnce ==
    /\ \A i \in 1 .. Len(bodies) : Len(bodies[i].closes) <= 1
    /\ \A i \in 1 .. Len(bodies) : ~bodies[i].exists => bodies[i].closes = <<>>
    /\ pc = "done" =>
         \A i \in 1 .. Len(bodies) :
            bodies[i].exists =>
              /\ Len(bodies[i].closes) = 1
              /\ i < Last => bodies[i].closes = << "doWithRetry" >>
              /\ (i = Last /\ result.err.kind = "hubspot")
                    => bodies[i].closes = << "doRequest" >>
              /\ (i = Last /\ result.err.kind = "nil")
                    => bodies[i].closes \in
                         { << "DecodeResponse" >>, << "DeleteContact" >> }

\* 503, 503, 200: the three bodies closed by doWithRetry, doWithRetry and
\* DecodeResponse
C9_Witness ==
    /\ pc = "done"
    /\ Len(bodies) = 3
    /\ bodies[1].closes = << "doWithRetry" >>
    /\ bodies[2].closes = << "doWithRetry" >>
    /\ bodies[3].closes = << "DecodeResponse" >>

\* C10: what a verb returns is either a response and no error or no
\* response and an error; a returned response is 2xx with a body neither
\* read nor closed; when a non-2xx response ended the loop (not retryable,
\* or retryable on the last attempt) the result is no response and a
\* HubSpotError with that response's status.
C10_ResponseXorError ==
    pc = "returned" =>
        /\ (result.resp # 0) <=> (result.err.kind = "nil")
        /\ result.resp # 0 =>
             /\ Is2xx(outcomes[result.resp].status)
             /\ bodies[result.resp] = OpenBody
        /\ ( /\ Last >= 1
             /\ outcomes[Last].err = "nil"
             /\ ~Is2xx(outcomes[Last].status)
             /\ (NonRetryableHTTP(Last) \/ Last = retryConfig.MaxRetries + 1) )
           => result = [resp |-> 0, err |-> HubSpotError(outcomes[Last].status)]

\* 429 on the last of two attempts
C10_Witness ==
    /\ pc = "returned"
    /\ retryConfig.MaxRetries = 1
    /\ Last = 2
    /\ outcomes[2] = [err |-> "nil", status |-> 429]
    /\ result = [resp |-> 0, err |-> HubSpotError(429)]

\* C11: a call whose attempts all ended in transport failure, with the
\* context never cancelled, returns a HubSpotError with StatusCode 0.
C11_TransportFailureIsStructured ==
    ( /\ Returned
      /\ RequestBuilt
      /\ ~ctxDone
      /\ Last >= 1
      /\ \A i \in 1 .. Last : outcomes[i].err = "net" )
    => ( result.err.kind = "hubspot" /\ result.err.status = 0 )

\* C19: a call that failed to marshal its body was made by a verb that has
\* one (Post or Patch), has returned that error, and has invoked the
\* transport zero times and started no backoff wait.
C19_MarshalFailureNoAttempt ==
    /\ [] ( result.err.kind = "marshal"
             => ( /\ Returned
                  /\ result.resp = 0
                  /\ Verb(op) \in {"POST", "PATCH"}
                  /\ Invocations = 0
                  /\ outcomes = <<>>
                  /\ waits = <<>> ) )
    /\ [][ (pc = "idle" /\ result'.err.kind = "marshal") => pc' = "returned" ]_vars

\* UpdateContact whose body cannot be marshalled
C19_Witness ==
    /\ pc = "done"
    /\ op = "UpdateContact"
    /\ result.err = MarshalErr
    /\ outcomes = <<>>

\* C20: at every moment of a call the transport has been invoked at most
\* MaxRetries + 1 times.
C20_AttemptsBounded ==
    pc # "idle" =>
        /\ Invocations <= (IF retryConfig.MaxRetries >= 0
                           THEN retryConfig.MaxRetries + 1 ELSE 0)
        /\ attempt <= Invocations

\* the fourth invocation under the default policy is in flight
C20_Witness ==
    /\ pc = "inflight"
    /\ retryConfig.MaxRetries = 3
    /\ Invocations = 4
    /\ \A i \in 1 .. Last : outcomes[i].err = "net"

\* C12: during a call the client holds the policy the call started with,
\* whatever else runs on the client.
C12_PolicyImmutable ==
    pc \in {"loop", "inflight", "backoff"} => retryConfig = startConfig

\* C13: a client in a call never holds a policy whose MaxBackoff is below
\* its InitialBackoff.
C13_PolicyValidated ==
    pc \in {"loop", "inflight", "backoff"}
    => retryConfig.MaxBackoff >= retryConfig.InitialBackoff

\* the base delay of a backoff run, InitialBackoff * Multiplier^attempt, as
\* the fraction BaseNum / BaseDen
BaseNum == bk.cfg.InitialBackoff * Pow(bk.cfg.Multiplier, bk.attempt)

BaseDen == Pow(MulDen, bk.attempt)

\* the jittered delay of attempt a with draw j exceeds MaxBackoff
WasClamped(a, j) ==
    bk.cfg.InitialBackoff * Pow(bk.cfg.Multiplier, a) * (4 * JitterSteps + j)
        > bk.cfg.MaxBackoff * Pow(MulDen, a) * 4 * JitterSteps

\* the run's policy satisfies maxDelay >= initialDelay
WellFormedPolicy == bk.cfg.MaxBackoff >= bk.cfg.InitialBackoff

\* C14 as stated: without a hint the delay d satisfies
\* base <= d <= min(maxDelay, 1.25 * base); read here for the policies with
\* maxDelay >= initialDelay only.
C14_DelayWithinBaseAndCap ==
    (bk.phase = "done" /\ WellFormedPolicy)
    => ( /\ BaseNum <= bk.plain * BaseDen
         /\ bk.plain <= bk.cfg.MaxBackoff
         /\ 4 * bk.plain * BaseDen <= 5 * BaseNum )

\* C14 amended: without a hint the delay d is at most
\* min(maxDelay, 1.25 * base); if base <= maxDelay then d > base - 1 tick
\* (the fraction of a tick is dropped), and if base > maxDelay then
\* d = maxDelay, which is below base.
C14_DelayWithinCap ==
    bk.phase = "done"
    => ( /\ bk.plain <= bk.cfg.MaxBackoff
         /\ 4 * bk.plain * BaseDen <= 5 * BaseNum
         /\ BaseNum <= bk.cfg.MaxBackoff * BaseDen
              => (bk.plain + 1) * BaseDen > BaseNum
         /\ BaseNum > bk.cfg.MaxBackoff * BaseDen
              => bk.plain = bk.cfg.MaxBackoff )

\* a well-formed policy whose base delay has grown past MaxBackoff
C14_Witness ==
    /\ bk.phase = "done"
    /\ WellFormedPolicy
    /\ BaseNum > bk.cfg.MaxBackoff * BaseDen
    /\ bk.plain = bk.cfg.MaxBackoff

\* C15 as stated: for every multiplier >= 1.0, if neither delay(k) nor
\* delay(k + 1) was clamped then delay(k + 1) >= delay(k).
C15_NonDecreasing ==
    ( /\ bk.phase = "done"
      /\ ~WasClamped(bk.attempt, bk.j)
      /\ ~WasClamped(bk.attempt + 1, bk.j2) )
    => bk.next >= bk.plain

\* C15 amended: the same for every multiplier >= 1.25.
C15_NonDecreasingFrom125 ==
    ( /\ bk.phase = "done"
      /\ 4 * bk.cfg.Multiplier >= 5 * MulDen
      /\ ~WasClamped(bk.attempt, bk.j)
      /\ ~WasClamped(bk.attempt + 1, bk.j2) )
    => bk.next >= bk.plain

\* multiplier between 1.25 and 2.0, the largest draw followed by the
\* smallest one, nothing clamped
C15_Witness ==
    /\ bk.phase = "done"
    /\ 4 * bk.cfg.Multiplier >= 5 * MulDen
    /\ bk.cfg.Multiplier < 2 * MulDen
    /\ bk.attempt >= 1
    /\ bk.j = JitterSteps - 1
    /\ bk.j2 = 0
    /\ ~WasClamped(bk.attempt, bk.j)
    /\ ~WasClamped(bk.attempt + 1, bk.j2)
    /\ bk.next > bk.plain

\* C16: for a response whose Retry-After is the integer N > 0 the delay is
\* exactly N seconds.
C16_HintSecondsVerbatim ==
    (bk.phase = "done" /\ bk.hdr.kind = "seconds" /\ bk.hdr.n > 0)
    => bk.d = bk.hdr.n * TicksPerSecond

\* the header carries no usable hint: absent, unparseable, or a count or a
\* date that is not in the future
UnusableHint(h) ==
    \/ h.kind \in {"absent", "garbage"}
    \/ h.kind = "seconds" /\ h.n <= 0
    \/ h.kind = "date" /\ h.n <= 0

\* the exponential backoff of the run: the jittered base, capped
ExpectedBackoff ==
    IF WasClamped(bk.attempt, bk.j)
    THEN bk.cfg.MaxBackoff
    ELSE (BaseNum * (4 * JitterSteps + bk.j)) \div (BaseDen * 4 * JitterSteps)

\* C17: with a header that carries no usable hint the delay is the
\* exponential backoff, the one computed for a transport failure.
C17_UnusableHintFallsThrough ==
    (bk.phase = "done" /\ UnusableHint(bk.hdr))
    => ( bk.d = ExpectedBackoff /\ bk.d = bk.plain )

\* a date in the past and a positive computed delay
C17_Witness ==
    /\ bk.phase = "done"
    /\ bk.hdr = [kind |-> "date", n |-> -1]
    /\ bk.d = ExpectedBackoff
    /\ bk.d > 0

\* C18: for every body (empty, not JSON, JSON of the wrong shape, well
\* formed, one whose read fails) parseErrorResponse returns a HubSpotError
\* whose StatusCode is the status of the response, whatever the body says.
C18_DecoderTotal ==
    /\ dec.phase \in {"pending", "done", "read"}
    /\ dec.phase \in {"done", "read"} =>
         /\ DOMAIN dec.out = {"Status", "Message", "Category", "StatusCode"}
         /\ dec.out.StatusCode = dec.status

\* a well-formed body that names another code than the response's
C18_Witness ==
    /\ dec.phase = "done"
    /\ dec.body.kind = "well_formed"
    /\ dec.body.code = 200
    /\ dec.body.status = "error"
    /\ dec.status = 503
    /\ dec.out.StatusCode = 503

\* the default policy as documented: 3 retries, 1s initial, 30s max, 2x
DocumentedDefault ==
    [MaxRetries |-> 3, InitialBackoff |-> 1 * TicksPerSecond,
     MaxBackoff |-> 30 * TicksPerSecond, Multiplier |-> 2 * MulDen]

C27_TransportExhaustion ==
    ( /\ Returned
      /\ RequestBuilt
      /\ ~ctxDone
      /\ Last >= 1
      /\ \A i \in 1 .. Last : outcomes[i].err = "net" )
    => ( /\ Last = retryConfig.MaxRetries + 1
         /\ result.resp = 0
         /\ result.err = [kind |-> "failed_after_retries", status |-> 0,
                          cause |-> outcomes[Last].err,
                          retries |-> retryConfig.MaxRetries] )

\* three transport failures with MaxRetries = 2
C27_Witness ==
    /\ pc = "returned"
    /\ retryConfig.MaxRetries = 2
    /\ ~ctxDone
    /\ Last = 3
    /\ \A i \in 1 .. Last : outcomes[i].err = "net"
    /\ result.err.kind = "failed_after_retries"
    /\ result.err.retries = 2

\* C29: doRequest never dereferences a nil response, and a call that was
\* built and has returned under an uncancelled context has made at least
\* one attempt.
C29_NeverNilNil ==
    /\ pc # "panic"
    /\ (Returned /\ RequestBuilt /\ ~ctxDone) => Last >= 1

\* C30: no body the retry loop released is read or closed again.
C30_HandedBackBodyIsOpen ==
    \A i \in 1 .. Len(bodies) :
        /\ Len(bodies[i].closes) <= 1
        /\ bodies[i].closes = << "doWithRetry" >> => ~bodies[i].read

\* C22: when the API answered 404 to the GetContact of Read, the resource
\* is removed from the state and no error diagnostic is added.
C22_ReadRemovesOn404 ==
    (dec.phase = "read" /\ dec.status = StatusNotFound) => dec.read = "removed"

\* the token Configure decides on: the attribute, else the environment
EffectiveToken == IF pcf.attr.ascii + pcf.attr.wide + pcf.attr.spaces = 0
                  THEN pcf.env ELSE pcf.attr

\* the number of characters and of bytes of a token
Characters(t) == t.ascii + t.wide + t.spaces

Bytes(t) == t.ascii + t.spaces + 2 * t.wide

HeaderWords ==
    UNION {{req.headers[h][i] : i \in DOMAIN req.headers[h]} :
             h \in DOMAIN req.headers}

\* C25: the request of every attempt names the configured API version in
\* one of its headers.
C25_VersionInHeaders ==
    pc = "inflight" => client.apiVersion \in HeaderWords

\* C26: the text of the error a verb returned does not contain the token
\* of the client, although the request of the call carries it.
C26_TokenNotInErrors ==
    Returned =>
        /\ client.apiToken \notin
               ErrorText(result.err,
                         IF RequestBuilt THEN req ELSE NewRequest(client, op))
        /\ (RequestBuilt /\ Last >= 1) => client.apiToken \in HeaderWords

\* the second client, a transport failure on the only attempt
C26_Witness ==
    /\ pc = "returned"
    /\ client.apiToken = "pat-beta"
    /\ retryConfig.MaxRetries = 0
    /\ result.err.kind = "failed_after_retries"
    /\ "pat-beta" \in HeaderWords
    /\ "https://api.hubapi.com" \in ErrorText(result.err, req)

\* C28: every attempt of a call with a body transmits the complete body.
C28_RetriesResendBody ==
    \A i \in 1 .. Len(req.sent) : req.hasBody => req.sent[i] = "complete"

\* call i has returned and every outcome it saw was 429 or 5xx
ExhaustedByStatus(i) ==
    /\ calls[i].pc = "returned"
    /\ ~calls[i].ctxDone
    /\ \A k \in 1 .. Len(calls[i].outcomes) :
          /\ calls[i].outcomes[k].err = "nil"
          /\ IsRetryableStatus(calls[i].outcomes[k].status)

TerminalOutcome ==
    /\ pc \in {"returned", "done"}
    /\ (result.resp # 0) \/ (result.err.kind # "nil")

\* C31: every call that entered the retry loop reaches a terminal outcome,
\* given that every transport invocation returns and every backoff wait
\* ends.
C31_CallTerminates == (pc = "loop") ~> TerminalOutcome

\* the retry loop itself never runs forever: it is left after at most
\* MaxRetries + 1 iterations, by a return or by the nil dereference in
\* doRequest
LoopIsLeft == (pc = "loop") ~> (pc \in {"returned", "done", "panic"})

\* under a policy with MaxRetries >= 0 the call reaches a terminal outcome
TerminatesWithNonNegativeRetries ==
    (pc = "loop" /\ retryConfig.MaxRetries >= 0) ~> TerminalOutcome

\* the delay of a wait after a transport failure at attempt index a: the
\* base delay InitialBackoff * Multiplier^a with a jitter of up to a quarter
\* of it, capped at MaxBackoff
DelayOfAttempt(a, d) ==
    \E j \in 0 .. JitterSteps - 1 :
        LET num == retryConfig.InitialBackoff * Pow(retryConfig.Multiplier, a)
                       * (4 * JitterSteps + j)
            den == Pow(MulDen, a) * 4 * JitterSteps
        IN  d = IF num > retryConfig.MaxBackoff * den
                THEN retryConfig.MaxBackoff
                ELSE num \div den

\* C32: a wait is started only by an attempt that is retried and the next
\* attempt follows it: the i-th wait (from 0) is computed with attempt
\* index i, so the first one with InitialBackoff as its base; a call that
\* returned anything but the cancellation error after n invocations made
\* n - 1 waits, none after its final attempt.
C32_WaitsBetweenAttempts ==
    /\ [] ( /\ \A k \in 1 .. Len(waits) : waits[k] = k - 1
            /\ Len(waits) <= Last
            /\ pc = "inflight" => Len(waits) = Last
            /\ pc = "backoff" => (Len(waits) = Last /\ waits[Last] = attempt)
            /\ (pc = "backoff" /\ resp = 0) => DelayOfAttempt(Last - 1, backoff)
            /\ ( /\ Returned
                 /\ RequestBuilt
                 /\ Last >= 1
                 /\ result.err.kind # "ctx" )
               => Len(waits) = Last - 1 )
    /\ [][ /\ (pc # "backoff" /\ pc' = "backoff")
                 => (pc = "inflight" /\ waits' # waits)
           /\ waits' # waits =>
                 (pc = "inflight" /\ pc' = "backoff"
                  /\ Len(waits') = Len(waits) + 1) ]_vars

\* a transport failure, 503, then 200: two waits, computed with the attempt
\* indexes 0 and 1, and none after the 200
C32_Witness ==
    /\ pc = "returned"
    /\ ~ctxDone
    /\ Last = 3
    /\ outcomes[1].err = "net"
    /\ outcomes[2] = [err |-> "nil", status |-> 503]
    /\ outcomes[3] = [err |-> "nil", status |-> 200]
    /\ waits = <<0, 1>>
    /\ result.resp = 3

\* how many of the four predicates hold for the error e
PredicatesHolding(e) ==
    Cardinality({p \in {"not_found", "rate_limited", "server_error", "auth"} :
                   \/ p = "not_found" /\ IsNotFound(e)
                   \/ p = "rate_limited" /\ IsRateLimited(e)
                   \/ p = "server_error" /\ IsServerError(e)
                   \/ p = "auth" /\ IsAuthError(e)})

\* status codes around the edges of the predicates
EdgeStatuses == {0, 399, 400, 401, 402, 403, 404, 405, 428, 429, 430, 499,
                 500, 501, 599, 600}

\* C33: a HubSpotError a verb returned with IsRateLimited or IsServerError
\* true comes after MaxRetries + 1 attempts; one returned after fewer
\* attempts has a status that is neither 429 nor 5xx; the predicates follow
\* the status of the final response and at most one of IsNotFound,
\* IsRateLimited, IsServerError and IsAuthError holds for an error.
C33_RetryableErrorMeansExhausted ==
    /\ (Returned /\ result.err.kind = "hubspot") =>
          /\ Last >= 1
          /\ result.err.status = outcomes[Last].status
          /\ IsRateLimited(result.err) <=> outcomes[Last].status = 429
          /\ IsServerError(result.err)
                <=> (outcomes[Last].status >= 500 /\ outcomes[Last].status <= 599)
          /\ (IsRateLimited(result.err) \/ IsServerError(result.err))
                => Last = retryConfig.MaxRetries + 1
          /\ Last < retryConfig.MaxRetries + 1
                => ~IsRetryableStatus(result.err.status)
          /\ PredicatesHolding(result.err) <= 1
    /\ (Returned /\ result.err.kind # "hubspot")
          => PredicatesHolding(result.err) = 0
    /\ \A st \in EdgeStatuses : PredicatesHolding(HubSpotError(st)) <= 1

\* 503, 503 and 429: the rate-limit error after the third of three attempts
C33_Witness ==
    /\ pc = "returned"
    /\ retryConfig.MaxRetries = 2
    /\ Last = 3
    /\ outcomes[1] = [err |-> "nil", status |-> 503]
    /\ outcomes[3] = [err |-> "nil", status |-> 429]
    /\ IsRateLimited(result.err)
    /\ ~IsServerError(result.err)

\* C34: when the search of GetContactByEmail succeeded and returned no
\* result, the error is a HubSpotError for which IsNotFound() is true.
C34_EmptySearchIsNotFound ==
    ( /\ lookup.phase = "done"
      /\ lookup.post.err.kind = "nil"
      /\ lookup.decodeOK
      /\ (lookup.total = 0 \/ lookup.results = 0) )
    => ( /\ IsHubSpotErrorPtr(lookup.err)
         /\ IsNotFound(HubSpotError(lookup.err.StatusCode)) )

\* C37: when the client call of Create, Update or Delete failed, the
\* handler added its error diagnostic and the Terraform state is the one
\* from before the operation.
C37_FailedCallLeavesState ==
    (tf.phase = "done" /\ tf.called /\ tf.err # "nil")
    => ( /\ tf.state = tf.prior
         /\ tf.diags = << "Error " \o
                           (CASE tf.handler = "Create" -> "Creating"
                              [] tf.handler = "Update" -> "Updating"
                              [] tf.handler = "Delete" -> "Deleting")
                           \o " Contact" >> )

\* DeleteContact answered 503: the resource is still in the state
C37_Witness ==
    /\ tf.phase = "done"
    /\ tf.handler = "Delete"
    /\ tf.called
    /\ tf.err = "hubspot_503"
    /\ tf.prior \in ContactStates
    /\ tf.state = tf.prior
    /\ tf.diags # <<>>

\* C35: for a body that cannot be decoded the message of the HubSpotError
\* is "HTTP <status>: <body>", with the status of the response and the text
\* of the body unchanged; for a body that can, Category and Message are the
\* body's "category" and "message".
C35_MessageEmbedsBody ==
    dec.phase \in {"done", "read"} =>
        /\ dec.body.kind \in {"empty", "not_json", "wrong_shape"} =>
              /\ dec.out.Message.format = "HTTP %d: %s"
              /\ dec.out.Message.code = dec.status
              /\ dec.out.Message.text = RawText(dec.body)
              /\ dec.out.StatusCode = dec.status
        /\ dec.body.kind \in {"well_formed", "object", "null"} =>
              /\ dec.out.Category = dec.body.category
              /\ dec.out.Message = Verbatim(dec.body.message)
              /\ dec.out.Status = dec.body.status

\* a 502 whose body is a page of HTML
C35_Witness ==
    /\ dec.phase = "done"
    /\ dec.status = 502
    /\ dec.body.kind = "not_json"
    /\ dec.out.Message.text = "<html>Bad Gateway</html>"
    /\ dec.out.Message.code = 502

\* C36: the request of every transport invocation, the first and every
\* retry, has Authorization "Bearer <token>" with the token of the client,
\* and Content-Type and Accept "application/json"; nothing changes the
\* headers between the attempts of a call.
C36_HeadersOnEveryAttempt ==
    /\ [] ( pc = "inflight" =>
              /\ {"Authorization", "Content-Type", "Accept"}
                    \subseteq DOMAIN req.headers
              /\ req.headers["Authorization"] = <<"Bearer", client.apiToken>>
              /\ req.headers["Content-Type"] = <<"application/json">>
              /\ req.headers["Accept"] = <<"application/json">> )
    /\ [][ (pc \in {"loop", "inflight", "backoff"})
             => (req'.headers = req.headers /\ client' = client) ]_vars

\* the third attempt of a call of the second client is in flight
C36_Witness ==
    /\ pc = "inflight"
    /\ Last = 2
    /\ attempt = 2
    /\ client.apiToken = "pat-beta"
    /\ req.headers["Authorization"] = <<"Bearer", "pat-beta">>
    /\ Len(req.sent) = 2

====
